---- MODULE Spec2Model ----
(***************************************************************************)
(* A model of lilv-rs' State (src/src/state.rs): the snapshot wrapper over  *)
(* the engine's LilvState handle, its constructors, its clone/drop         *)
(* ownership, the two port-value trampolines and the status/option         *)
(* conversions of its methods.                                             *)
(***************************************************************************)
EXTENDS Integers, Sequences, FiniteSets

\* ------------------------------------------------------------------ bounds
MaxHandles == 2        \* engine handles the allocator can hand out
MaxOwners == 2         \* State values the caller holds at once
MaxFeatures == 2       \* length of the caller's feature collection
MaxPropValue == 2      \* distinct values of the instance's property
MaxStatus == 3         \* largest engine status code drawn
MaxFrees == 2          \* lilv_state_free calls counted per handle
MaxThreads == 2        \* threads calling into snapshots of the one world

\* --------------------------------------------------------------- constants
NULL == 0                    \* std::ptr::null(), a null raw pointer
LV2_STATE_SUCCESS == 0       \* lv2_sys::LV2_State_Status_LV2_STATE_SUCCESS

Handles == 1..MaxHandles
Slots == 1..MaxOwners
Threads == 1..MaxThreads
NoThread == 0

\* A URI is <<directory part, name>>; a reference with an empty directory
\* part is relative. NoUri stands for a null node / null C string.
NoUri == <<"", "">>
Uri(dir, name) == <<dir, name>>
IsRelative(u) == u[1] = "" /\ u # NoUri
PluginUri == Uri("http://lv2plug.in/plugins/", "eg-amp")
Uris == {Uri("urn:a/", "s1"), PluginUri}
BaseUris == {"urn:a/"}

\* Labels as byte strings: BadLabel is not valid UTF-8 (a lone 0xE9), and
\* ReplacedLabel is BadLabel with U+FFFD in place of that byte.
NoLabel == "-"
BadLabel == "caf<E9>"
ReplacedLabel == "caf<U+FFFD>"
Labels == {"my_label"}

\* Addresses of the objects a call to new_from_instance / restore /
\* emit_port_values has on its stack and heap.
BoxAddr == 1           \* where the caller's Box<dyn ...> (a fat pointer) lives
ObjAddr == 2           \* the accessor object the Box points to
VtableAddr == 3        \* the accessor type's vtable
StackWords == {NULL, VtableAddr, 4}  \* what the word after `user` may hold

\* The plugin's control input ports, in the plugin's order.
Ports == <<"gain", "mix">>
PortValue(value, size, type) == [value |-> value, size |-> size, type |-> type]
NullValue == PortValue(NULL, 0, 0)
\* What an accessor may answer for a port: (pointer, size, type URID).
Answers == {PortValue(5, 4, 1), PortValue(6, 8, 2)}

\* The instance's properties (one property, absent or with a value).
PropSets == {<<>>} \cup {<<v>> : v \in 1..MaxPropValue}

\* Records list their fields in the order the field names first appear in
\* this module, which is the order TLC keeps them in.
\* A stored port value of a snapshot.
Stored(symbol, pv) ==
  [value |-> pv.value, size |-> pv.size, type |-> pv.type, symbol |-> symbol]

\* The engine's LilvState behind a handle.
Unused ==
  [st |-> "unused", origin |-> "none", plugin_uri |-> NoUri, uri |-> NoUri,
   label |-> NoLabel, props |-> <<>>, values |-> <<>>, meta |-> {},
   saved |-> FALSE]
Freed == [Unused EXCEPT !.st = "freed"]
LilvState(origin, plugin_uri, uri, label, props, values) ==
  [st |-> "live", origin |-> origin, plugin_uri |-> plugin_uri, uri |-> uri,
   label |-> label, props |-> props, values |-> values, meta |-> {},
   saved |-> FALSE]

\* Option<&str> for a directory-like string, and the C pointer made of it.
NoneStr == "None"
CNull == "(null)"
\* opt.map_or(std::ptr::null(), |_| c.as_ptr()): null for None, else the
\* C string (the strings drawn hold no interior NUL, so CString::new is Ok).
c_str_or_null(opt) == IF opt = NoneStr THEN CNull ELSE opt
\* The caller's file_dir, copy_dir, link_dir and save_dir.
NoDirs == <<NoneStr, NoneStr, NoneStr, NoneStr>>
DirArgs == {NoDirs, <<"/f", NoneStr, "/l", "/s">>}

\* A serialised snapshot as the engine writes and reads it. kind: "null" (no
\* string), "empty", "malformed" or "doc".
Text(kind, subject, plugin, label, props, values) ==
  [label |-> label, props |-> props, values |-> values, kind |-> kind,
   subject |-> subject, plugin |-> plugin]
NullText == Text("null", NoUri, NoUri, NoLabel, <<>>, <<>>)
EmptyText == Text("empty", NoUri, NoUri, NoLabel, <<>>, <<>>)
MalformedText == Text("malformed", NoUri, NoUri, NoLabel, <<>>, <<>>)
NoBackup ==
  [uri |-> NoUri, ok |-> FALSE, text |-> NullText, of |-> NULL,
   base_uri |-> "None"]

\* Option<State>: State { world, inner } or None (one world in the model).
None == [some |-> FALSE, inner |-> NULL]
Some(p) == [some |-> TRUE, inner |-> p]

VARIABLES
  heap,     \* [Handles -> LilvState]: the engine's objects
  frees,    \* [Handles -> Nat]: calls of lilv_state_free on each handle
  owners,   \* [Slots -> Option<State>]: the State values the caller holds
  inst,     \* the live instance: [plugin, props]
  host,     \* [port symbol -> PortValue]: the caller's accessor object
  backup,   \* the string the caller kept from its last to_string
  last,     \* what the last call handed to the engine and returned
  world_lock,  \* the thread holding the guard of world.inner, or NoThread
  pc        \* [Threads -> position]: where each thread is in save,
            \* to_string or delete

vars == <<heap, frees, owners, inst, host, backup, last, world_lock, pc>>

\* The record of one call (all fields always present).
NoCall ==
  [uri |-> NoUri, props |-> <<>>, base_uri |-> "None", some |-> FALSE,
   op |-> "none", user |-> FALSE, fn |-> "null", features |-> <<>>,
   entered |-> 0, invoked |-> <<>>, written |-> <<>>, outcome |-> "ok",
   handle |-> NULL, status |-> 0, result |-> [ok |-> TRUE, err |-> 0],
   target |-> NULL, given |-> <<>>, stored |-> <<>>, frombackup |-> FALSE,
   dirs |-> <<CNull, CNull, CNull, CNull>>]

\* A thread's position: outside the three methods ("idle"), or inside `op` on
\* the State in slot `slot`: holding the guard of its first statement
\* ("locked"), past that statement with world_ptr in hand ("ptr"), or
\* inside the engine call made with world_ptr ("engine").
Idle == [op |-> "none", at |-> "idle", slot |-> 0]
At(op, at, slot) == [op |-> op, at |-> at, slot |-> slot]

PortSymbols == {Ports[i] : i \in 1..Len(Ports)}

\* The handles the allocator has not handed out yet.
Fresh == {h \in Handles : heap[h].st = "unused"}
Crashed == last.outcome = "crash"

\* ------------------------------------------------------- State::new, 88-93
State_new_always(state_ptr) == Some(state_ptr)
State_new(state_ptr) == IF state_ptr = NULL THEN None ELSE Some(state_ptr)

\* Binding a constructor's result to the caller's variable `s`.
Bind(s, opt) == IF opt.some THEN [owners EXCEPT ![s] = opt] ELSE owners

\* ------------------------------------------------ the accessor trampolines
\* `user` (Option<&Box<dyn ...>>, one pointer-sized word) as it lies at &user.
UserSlot(user) == IF user THEN BoxAddr ELSE NULL

\* The trampolines read an Option<Box<dyn ...>> (two words: data, vtable) at
\* that address; the second word is whatever follows `user` in the frame.
ReadAsBox(user_data, adj) == [data |-> user_data, vtable |-> adj]

\* A method call through a Box<dyn ...> runs the accessor's method on the
\* accessor only when data and vtable are the accessor's own.
Dispatches(fat) == fat.data = ObjAddr /\ fat.vtable = VtableAddr

\* What a call through any other fat pointer may do: abort the process, or
\* return from arbitrary code with arbitrary results.
NoWild == [pv |-> NullValue, outcome |-> "ok"]
Wild ==
  {[pv |-> NullValue, outcome |-> "crash"]} \cup
  {[pv |-> p, outcome |-> "wild"] : p \in {NullValue, PortValue(6, 8, 2)}}

\* get_port_value_func, 35-56: what it writes to *size and *type_, what it
\* returns, and the accessor invocation it made (if any).
get_port_value_func(port_symbol, user_data, adj, wild) ==
  LET user == ReadAsBox(user_data, adj) IN
  IF user.data = NULL
    THEN [pv |-> NullValue, invoked |-> <<>>, outcome |-> "ok"]
    ELSE IF Dispatches(user)
      THEN [pv |-> host[port_symbol],
            invoked |-> <<Stored(port_symbol, host[port_symbol])>>,
            outcome |-> "ok"]
      ELSE [pv |-> wild.pv, invoked |-> <<>>, outcome |-> wild.outcome]

\* set_port_value_func, 65-79: the accessor invocation it made (if any).
set_port_value_func(port_symbol, user_data, value, size, type, adj, wild) ==
  LET user == ReadAsBox(user_data, adj) IN
  IF user.data = NULL
    THEN [invoked |-> <<>>, outcome |-> "ok"]
    ELSE IF Dispatches(user)
      THEN [invoked |-> <<Stored(port_symbol, PortValue(value, size, type))>>,
            outcome |-> "ok"]
      ELSE [invoked |-> <<>>, outcome |-> wild.outcome]

\* The callback pointers handed to the engine (120, 262, 229).
get_value_fn_always(user) == "get_port_value_func"
get_value_fn(user) == IF user THEN "get_port_value_func" ELSE "null"
set_value_fn(user) == IF user THEN "set_port_value_func" ELSE "null"

\* features_vec, 123-127 and 265-269: the caller's records, then a null.
features_vec_no_sentinel(features) == features
features_vec_of(features) == Append(features, NULL)

\* The caller's feature collections: addresses of LV2Feature records
\* (references, hence never null).
FeatureAddr(i) == 6 + i
FeatureSeqs ==
  {[i \in 1..n |-> FeatureAddr(i)] : n \in 0..MaxFeatures} \cup
  {[i \in 1..n |-> FeatureAddr(n + 1 - i)] : n \in 2..MaxFeatures}

RECURSIVE Flatten(_)
Flatten(seqs) ==
  IF seqs = <<>> THEN <<>> ELSE Head(seqs) \o Flatten(Tail(seqs))

\* The engine's loop over the plugin's ports during capture: one call of the
\* produce callback per port, when a callback was given.
CaptureCalls(get_value, user_data, adj, wild) ==
  IF get_value = "null" THEN <<>>
  ELSE [i \in 1..Len(Ports) |->
          get_port_value_func(Ports[i], user_data, adj, wild)]

\* The engine's loop over a snapshot's stored port values during restore
\* and emit: one call of the consume callback per stored value.
EmitCalls(values, set_value, user_data, adj, wild) ==
  IF set_value = "null" THEN <<>>
  ELSE [i \in 1..Len(values) |->
          set_port_value_func(values[i].symbol, user_data, values[i].value,
                              values[i].size, values[i].type, adj, wild)]

Outcome(calls) ==
  IF \E i \in 1..Len(calls) : calls[i].outcome = "crash" THEN "crash"
  ELSE IF \E i \in 1..Len(calls) : calls[i].outcome = "wild" THEN "wild"
  ELSE "ok"

Invoked(calls) == Flatten([i \in 1..Len(calls) |-> calls[i].invoked])

\* The accessor object after the set_port_value invocations `inv`.
HostAfter(inv) ==
  [p \in PortSymbols |->
     IF \E i \in 1..Len(inv) : inv[i].symbol = p
       THEN LET i == CHOOSE i \in 1..Len(inv) :
                       inv[i].symbol = p /\ \A j \in (i+1)..Len(inv) : inv[j].symbol # p
            IN PortValue(inv[i].value, inv[i].size, inv[i].type)
       ELSE host[p]]

\* ------------------------------------- State::new_from_instance, 95-145
new_from_instance(s, dirs, user, features, ok, adj, wild) ==
  /\ ~Crashed
  /\ ~owners[s].some
  /\ Fresh # {}
  /\ LET file_dir == c_str_or_null(dirs[1])
         copy_dir == c_str_or_null(dirs[2])
         link_dir == c_str_or_null(dirs[3])
         save_dir == c_str_or_null(dirs[4])
         get_value == get_value_fn(user)
         user_data == UserSlot(user)
         features_vec == features_vec_of(features)
         calls == CaptureCalls(get_value, user_data, adj, wild)
         outcome == Outcome(calls)
         values == [i \in 1..Len(calls) |-> Stored(Ports[i], calls[i].pv)]
         h == CHOOSE h \in Fresh : \A g \in Fresh : h <= g
         state_ptr == IF ok /\ outcome # "crash" THEN h ELSE NULL
         opt == State_new(state_ptr)
     IN /\ heap' = IF state_ptr = NULL THEN heap
                   ELSE [heap EXCEPT ![h] =
                           LilvState("instance", inst.plugin, NoUri, NoLabel, inst.props, values)]
        /\ owners' = IF outcome = "crash" THEN owners ELSE Bind(s, opt)
        /\ last' = [NoCall EXCEPT !.op = "new_from_instance", !.user = user,
                      !.fn = get_value, !.given = features,
                      !.features = features_vec, !.entered = Len(calls),
                      !.invoked = Invoked(calls),
                      !.written = [i \in 1..Len(calls) |-> calls[i].pv],
                      !.outcome = outcome, !.handle = state_ptr,
                      !.some = opt.some /\ outcome # "crash",
                      !.props = inst.props,
                      !.dirs = <<file_dir, copy_dir, link_dir, save_dir>>]
  /\ UNCHANGED <<frees, inst, host, backup, world_lock, pc>>

\* ------------------------------------------------ State::restore, 236-279
restore(s, user, features, adj, wild) ==
  /\ ~Crashed
  /\ owners[s].some
  /\ heap[owners[s].inner].st = "live"
  /\ LET state == heap[owners[s].inner]
         set_value == set_value_fn(user)
         user_data == UserSlot(user)
         features_vec == features_vec_of(features)
         calls == EmitCalls(state.values, set_value, user_data, adj, wild)
         outcome == Outcome(calls)
     IN /\ inst' = IF state.props = <<>> THEN inst
                   ELSE [inst EXCEPT !.props = state.props]
        /\ host' = HostAfter(Invoked(calls))
        /\ last' = [NoCall EXCEPT !.op = "restore", !.user = user,
                      !.fn = set_value, !.given = features,
                      !.features = features_vec, !.entered = Len(calls),
                      !.invoked = Invoked(calls), !.outcome = outcome,
                      !.target = owners[s].inner, !.stored = state.values,
                      !.props = state.props]
  /\ UNCHANGED <<heap, frees, owners, backup, world_lock, pc>>

\* --------------------------------------- State::emit_port_values, 220-234
emit_port_values(s, adj, wild) ==
  /\ ~Crashed
  /\ owners[s].some
  /\ heap[owners[s].inner].st = "live"
  /\ LET state == heap[owners[s].inner]
         set_value == "set_port_value_func"
         user_data == UserSlot(TRUE)
         calls == EmitCalls(state.values, set_value, user_data, adj, wild)
     IN /\ host' = HostAfter(Invoked(calls))
        /\ last' = [NoCall EXCEPT !.op = "emit_port_values", !.user = TRUE,
                      !.fn = set_value, !.entered = Len(calls),
                      !.invoked = Invoked(calls), !.outcome = Outcome(calls),
                      !.target = owners[s].inner, !.stored = state.values]
  /\ UNCHANGED <<heap, frees, owners, inst, backup, world_lock, pc>>

\* --------------------------------------------- #[derive(Clone)], 81-85
\* The derived clone copies both fields: the Arc (shared) and the raw
\* NonNull pointer (the same engine handle, no engine call).
clone(s, t) ==
  /\ ~Crashed
  /\ owners[s].some
  /\ ~owners[t].some
  /\ owners' = [owners EXCEPT ![t] = Some(owners[s].inner)]
  /\ last' = [NoCall EXCEPT !.op = "clone", !.target = owners[s].inner]
  /\ UNCHANGED <<heap, frees, inst, host, backup, world_lock, pc>>

\* ------------------------------------------- impl Drop for State, 389-395
drop(s) ==
  /\ ~Crashed
  /\ owners[s].some
  /\ frees[owners[s].inner] < MaxFrees
  /\ LET h == owners[s].inner IN
       /\ frees' = [frees EXCEPT ![h] = @ + 1]
       /\ heap' = [heap EXCEPT ![h] = Freed]
       /\ last' = [NoCall EXCEPT !.op = "drop", !.target = h]
  /\ owners' = [owners EXCEPT ![s] = None]
  /\ UNCHANGED <<inst, host, backup, world_lock, pc>>

\* ------------------------------------------------- the world's constructors
\* Subjects the world has a preset for, and the port values presets hold.
KnownSubjects == {Uri("urn:a/", "s1")}
PresetValues ==
  {<<>>,
   <<Stored("gain", PortValue(5, 4, 1))>>,
   <<Stored("mix", PortValue(6, 8, 2)), Stored("gain", PortValue(5, 4, 1))>>}

\* lilv_state_new_from_world: the preset for `subject`, or no handle.
EngineNewFromWorld(h, subject, label, props, values) ==
  IF subject \in KnownSubjects /\ h # NULL
    THEN [state |-> LilvState("world", PluginUri, subject, label, props, values),
          ptr |-> h]
    ELSE [state |-> Unused, ptr |-> NULL]

\* lilv_state_new_from_file: the document at `path`, or no handle.
EngineNewFromFile(h, path, props) ==
  IF path = "preset.ttl" /\ h # NULL
    THEN [state |-> LilvState("file", PluginUri, Uri("file:///", path), NoLabel,
                              props, <<>>),
          ptr |-> h]
    ELSE [state |-> Unused, ptr |-> NULL]

\* lilv_state_new_from_string: parses a document. No base URI is known at
\* this point, so a document with relative references does not resolve.
EngineNewFromString(h, text) ==
  IF /\ text.kind = "doc" /\ h # NULL
     /\ ~IsRelative(text.subject) /\ text.subject # NoUri
     /\ ~IsRelative(text.plugin) /\ text.plugin # NoUri
    THEN [state |-> LilvState("string", text.plugin, text.subject, text.label,
                              text.props, text.values),
          ptr |-> h]
    ELSE [state |-> Unused, ptr |-> NULL]

FreshHandle ==
  IF Fresh = {} THEN NULL ELSE CHOOSE h \in Fresh : \A g \in Fresh : h <= g

\* A constructor of world.rs: the engine's handle through State::new.
Construct(s, op, made) ==
  LET opt == State_new(made.ptr) IN
  /\ heap' = IF made.ptr = NULL THEN heap
             ELSE [heap EXCEPT ![made.ptr] = made.state]
  /\ owners' = Bind(s, opt)
  /\ last' = [NoCall EXCEPT !.op = op, !.handle = made.ptr, !.some = opt.some]

new_state(s, subject, label, props, values) ==
  /\ ~Crashed
  /\ ~owners[s].some
  /\ Fresh # {}
  /\ Construct(s, "new_state",
               EngineNewFromWorld(FreshHandle, subject, label, props, values))
  /\ UNCHANGED <<frees, inst, host, backup, world_lock, pc>>

new_state_from_file(s, path, props) ==
  /\ ~Crashed
  /\ ~owners[s].some
  /\ Fresh # {}
  /\ Construct(s, "new_state_from_file",
               EngineNewFromFile(FreshHandle, path, props))
  /\ UNCHANGED <<frees, inst, host, backup, world_lock, pc>>

new_state_from_string(s, text) ==
  /\ ~Crashed
  /\ ~owners[s].some
  /\ Fresh # {}
  /\ LET made == EngineNewFromString(FreshHandle, text)
         opt == State_new(made.ptr)
     IN /\ heap' = IF made.ptr = NULL THEN heap
                   ELSE [heap EXCEPT ![made.ptr] = made.state]
        /\ owners' = Bind(s, opt)
        /\ last' = [NoCall EXCEPT !.op = "new_state_from_string",
                      !.handle = made.ptr, !.some = opt.some,
                      !.frombackup = (backup.ok /\ text = backup.text),
                      !.target = backup.of]
  /\ UNCHANGED <<frees, inst, host, backup, world_lock, pc>>

\* ------------------------------------------- plugin_uri / uri, 152-173
\* plugin_uri unwraps the engine's node: a null node panics.
State_plugin_uri(h) ==
  LET node_ptr == heap[h].plugin_uri IN
  [panic |-> node_ptr = NoUri, node |-> node_ptr]

\* uri: None for a null node, else Some(node). <<>> is None, <<n>> Some(n).
State_uri_of_plugin(h) ==
  LET node_ptr == heap[h].plugin_uri IN
  IF node_ptr = NoUri THEN <<>> ELSE <<node_ptr>>
State_uri(h) ==
  LET node_ptr == heap[h].uri IN
  IF node_ptr = NoUri THEN <<>> ELSE <<node_ptr>>

\* ------------------------------------------------ set_label, 185-189
set_label(s, label) ==
  /\ ~Crashed
  /\ owners[s].some
  /\ heap[owners[s].inner].st = "live"
  /\ heap' = [heap EXCEPT ![owners[s].inner].label = label]
  /\ last' = [NoCall EXCEPT !.op = "set_label", !.target = owners[s].inner]
  /\ UNCHANGED <<frees, owners, inst, host, backup, world_lock, pc>>

\* --------------------------------------- the status conversions
\* `as lv2_sys::LV2_State_Status`: a cast between 32-bit integers. The
\* engine's status codes are small and not negative (Statuses), and on those
\* the cast keeps the value.
AsStatus(raw) == raw

\* The Result of save (316-319), set_metadata (214-217), delete (377-380).
\* Ok(()) is [ok |-> TRUE], Err(code) is [ok |-> FALSE, err |-> code].
StatusResultCollapsed(status) ==
  IF status = LV2_STATE_SUCCESS THEN [ok |-> TRUE, err |-> 0]
  ELSE [ok |-> FALSE, err |-> 1]
StatusResult(status) ==
  IF status = LV2_STATE_SUCCESS THEN [ok |-> TRUE, err |-> 0]
  ELSE [ok |-> FALSE, err |-> status]

Statuses == 0..MaxStatus

\* ------------------------------------------------ set_metadata, 196-218
set_metadata(s, key, raw) ==
  /\ ~Crashed
  /\ owners[s].some
  /\ heap[owners[s].inner].st = "live"
  /\ LET h == owners[s].inner
         status == AsStatus(raw)
     IN /\ heap' = IF raw = LV2_STATE_SUCCESS
                     THEN [heap EXCEPT ![h].meta = @ \cup {key}]
                     ELSE heap
        /\ last' = [NoCall EXCEPT !.op = "set_metadata", !.target = h,
                      !.status = raw, !.result = StatusResult(status)]
  /\ UNCHANGED <<frees, owners, inst, host, backup, world_lock, pc>>

\* ------------------------------------------------------- save, 291-320
\* With a uri the document's subject is that uri, else a file URI (289-290).
save(s, uri, dir, filename, raw) ==
  /\ ~Crashed
  /\ owners[s].some
  /\ heap[owners[s].inner].st = "live"
  /\ LET h == owners[s].inner
         status == AsStatus(raw)
     IN /\ heap' = IF raw = LV2_STATE_SUCCESS
                     THEN [heap EXCEPT ![h].saved = TRUE,
                                       ![h].uri = IF uri = NoUri
                                                    THEN Uri(dir, filename)
                                                    ELSE uri]
                     ELSE heap
        /\ last' = [NoCall EXCEPT !.op = "save", !.target = h, !.uri = uri,
                      !.status = raw, !.result = StatusResult(status)]
  /\ UNCHANGED <<frees, owners, inst, host, backup, world_lock, pc>>

\* ----------------------------------------------------- delete, 369-381
delete(s, raw) ==
  /\ ~Crashed
  /\ owners[s].some
  /\ heap[owners[s].inner].st = "live"
  /\ LET h == owners[s].inner
         status == AsStatus(raw)
     IN /\ heap' = IF raw = LV2_STATE_SUCCESS
                     THEN [heap EXCEPT ![h].saved = FALSE]
                     ELSE heap
        /\ last' = [NoCall EXCEPT !.op = "delete", !.target = h,
                      !.status = raw, !.result = StatusResult(status)]
  /\ UNCHANGED <<frees, owners, inst, host, backup, world_lock, pc>>

\* ---------------------------------------------------- to_string, 327-357
\* The two C strings handed to the engine: uri always, base_uri or null.
ToStringArgsSameBase(uri, base_uri) == [uri |-> uri, base_uri |-> uri[1]]
ToStringArgs(uri, base_uri) ==
  [uri |-> uri, base_uri |-> c_str_or_null(base_uri)]

\* A URI as the engine writes it under a base: relative when it lies
\* directly under the base.
Relativize(u, base) ==
  IF base # CNull /\ u[1] = base THEN Uri("", u[2]) ELSE u

\* lilv_state_to_string: the document with `uri` as its subject.
EngineToString(state, uri, base_uri) ==
  IF uri = NoUri THEN NullText
  ELSE Text("doc", Relativize(uri, base_uri),
            Relativize(state.plugin_uri, base_uri), state.label, state.props,
            state.values)

\* CStr::to_string_lossy (353): bytes that are not UTF-8 become U+FFFD.
LossyStr(bytes) == IF bytes = BadLabel THEN ReplacedLabel ELSE bytes
ToStringLossy(text) == [text EXCEPT !.label = LossyStr(@)]

to_string(s, uri, base_uri, ok) ==
  /\ ~Crashed
  /\ owners[s].some
  /\ heap[owners[s].inner].st = "live"
  /\ LET h == owners[s].inner
         args == ToStringArgs(uri, base_uri)
         state_string ==
           IF ok THEN EngineToString(heap[h], args.uri, args.base_uri)
           ELSE NullText
         some == state_string.kind # "null"
     IN /\ backup' = IF some
                       THEN [uri |-> uri, ok |-> TRUE,
                             text |-> ToStringLossy(state_string),
                             of |-> h, base_uri |-> base_uri]
                       ELSE NoBackup
        /\ last' = [NoCall EXCEPT !.op = "to_string", !.target = h,
                      !.uri = uri, !.base_uri = base_uri, !.some = some]
  /\ UNCHANGED <<heap, frees, owners, inst, host, world_lock, pc>>

\* ------------------------------------------- impl PartialEq, 397-403
\* lilv_state_equals: properties and port values (with their types).
eq(a, b) ==
  /\ heap[a].props = heap[b].props
  /\ heap[a].values = heap[b].values

\* ------------------ save, to_string and delete, statement by statement
\* Two threads may hold &State to snapshots of the one world (State is Send
\* and Sync, 13-14); each runs the statements of a method in order.

\* `self.world.inner.lock()` (299, 334, 370): waits until the mutex is
\* free and takes it; the guard is a temporary of the let statement.
world_inner_lock(t, op, s) ==
  /\ ~Crashed
  /\ pc[t] = Idle
  /\ owners[s].some
  /\ heap[owners[s].inner].st = "live"
  /\ world_lock = NoThread
  /\ world_lock' = t
  /\ pc' = [pc EXCEPT ![t] = At(op, "locked", s)]
  /\ UNCHANGED <<heap, frees, owners, inst, host, backup, last>>

\* `.as_ptr();` (299, 334, 370): the raw pointer is copied out of the guard
\* into world_ptr, and at the semicolon the temporary guard is dropped,
\* which unlocks the mutex.
world_ptr_as_ptr(t) ==
  /\ pc[t].at = "locked"
  /\ world_lock = t
  /\ world_lock' = NoThread
  /\ pc' = [pc EXCEPT ![t].at = "ptr"]
  /\ UNCHANGED <<heap, frees, owners, inst, host, backup, last>>

\* The unsafe block enters the engine with world_ptr: lilv_state_save
\* (306-314), lilv_state_to_string (340-347), lilv_state_delete (372-375).
\* The argument conversions before it (300-304, 335-338) take no lock.
engine_call(t) ==
  /\ pc[t].at = "ptr"
  /\ pc' = [pc EXCEPT ![t].at = "engine"]
  /\ UNCHANGED <<heap, frees, owners, inst, host, backup, last, world_lock>>

\* lilv_state_save returns `raw`; the rest of save (316-319).
save_return(t, uri, dir, filename, raw) ==
  /\ pc[t].at = "engine"
  /\ pc[t].op = "save"
  /\ LET h == owners[pc[t].slot].inner
         status == AsStatus(raw)
     IN /\ heap' = IF raw = LV2_STATE_SUCCESS
                     THEN [heap EXCEPT ![h].saved = TRUE,
                                       ![h].uri = IF uri = NoUri
                                                    THEN Uri(dir, filename)
                                                    ELSE uri]
                     ELSE heap
        /\ last' = [NoCall EXCEPT !.op = "save", !.target = h, !.uri = uri,
                      !.status = raw, !.result = StatusResult(status)]
  /\ pc' = [pc EXCEPT ![t] = Idle]
  /\ UNCHANGED <<frees, owners, inst, host, backup, world_lock>>

\* lilv_state_to_string returns; the rest of to_string (349-356).
to_string_return(t, uri, base_uri, ok) ==
  /\ pc[t].at = "engine"
  /\ pc[t].op = "to_string"
  /\ LET h == owners[pc[t].slot].inner
         args == ToStringArgs(uri, base_uri)
         state_string ==
           IF ok THEN EngineToString(heap[h], args.uri, args.base_uri)
           ELSE NullText
         some == state_string.kind # "null"
     IN /\ backup' = IF some
                       THEN [uri |-> uri, ok |-> TRUE,
                             text |-> ToStringLossy(state_string),
                             of |-> h, base_uri |-> base_uri]
                       ELSE NoBackup
        /\ last' = [NoCall EXCEPT !.op = "to_string", !.target = h,
                      !.uri = uri, !.base_uri = base_uri, !.some = some]
  /\ pc' = [pc EXCEPT ![t] = Idle]
  /\ UNCHANGED <<heap, frees, owners, inst, host, world_lock>>

\* lilv_state_delete returns `raw`; the rest of delete (377-380).
delete_return(t, raw) ==
  /\ pc[t].at = "engine"
  /\ pc[t].op = "delete"
  /\ LET h == owners[pc[t].slot].inner
         status == AsStatus(raw)
     IN /\ heap' = IF raw = LV2_STATE_SUCCESS
                     THEN [heap EXCEPT ![h].saved = FALSE]
                     ELSE heap
        /\ last' = [NoCall EXCEPT !.op = "delete", !.target = h,
                      !.status = raw, !.result = StatusResult(status)]
  /\ pc' = [pc EXCEPT ![t] = Idle]
  /\ UNCHANGED <<frees, owners, inst, host, backup, world_lock>>

\* ------------------------------------------------------------ behaviours
\* Nothing constructed yet; the instance's properties and the accessor's
\* port values are the caller's.
InitWith(propsets, hosts) ==
  /\ heap = [h \in Handles |-> Unused]
  /\ frees = [h \in Handles |-> 0]
  /\ owners = [s \in Slots |-> None]
  /\ inst \in [props : propsets, plugin : {PluginUri}]
  /\ host \in hosts
  /\ backup = NoBackup
  /\ last = NoCall
  /\ world_lock = NoThread
  /\ pc = [t \in Threads |-> Idle]

HostA == [p \in PortSymbols |-> IF p = "gain" THEN PortValue(5, 4, 1)
                                 ELSE PortValue(6, 8, 2)]
HostB == [p \in PortSymbols |-> PortValue(6, 8, 2)]

Init == InitWith({<<1>>}, {HostA})
InitBridge == InitWith({<<>>, <<1>>}, {HostA, HostB})
InitText == InitWith(PropSets, {HostA})

\* Ownership: the constructors, clone and drop.
NextOwn ==
  \/ \E s \in Slots, ok \in BOOLEAN :
       new_from_instance(s, NoDirs, FALSE, <<>>, ok, NULL, NoWild)
  \/ \E s \in Slots, subject \in Uris :
       new_state(s, subject, NoLabel, <<>>, <<>>)
  \/ \E s \in Slots, path \in {"", "preset.ttl"} :
       new_state_from_file(s, path, <<>>)
  \/ \E s \in Slots, text \in {EmptyText, MalformedText} :
       new_state_from_string(s, text)
  \/ \E s, t \in Slots : clone(s, t)
  \/ \E s \in Slots : drop(s)

SpecOwn == Init /\ [][NextOwn]_vars

\* The accessor bridge: capture, restore and emit with and without accessor.
NextBridge ==
  \/ \E s \in {1}, dirs \in DirArgs, features \in FeatureSeqs,
         ok \in BOOLEAN :
       new_from_instance(s, dirs, FALSE, features, ok, NULL, NoWild)
  \/ \E s \in {1}, features \in FeatureSeqs, adj \in StackWords,
         wild \in Wild :
       new_from_instance(s, NoDirs, TRUE, features, TRUE, adj, wild)
  \/ \E s \in {1}, props \in PropSets, values \in PresetValues :
       new_state(s, Uri("urn:a/", "s1"), NoLabel, props, values)
  \/ \E s \in {1}, features \in FeatureSeqs :
       restore(s, FALSE, features, NULL, NoWild)
  \/ \E s \in {1}, features \in FeatureSeqs, adj \in StackWords,
         wild \in Wild :
       restore(s, TRUE, features, adj, wild)
  \/ \E s \in {1}, adj \in StackWords, wild \in Wild :
       emit_port_values(s, adj, wild)
  \/ \E s \in {1} : drop(s)

SpecBridge == InitBridge /\ [][NextBridge]_vars

\* Status results: save, set_metadata and delete.
NextStatus ==
  \/ \E s \in {1}, ok \in BOOLEAN :
       new_from_instance(s, NoDirs, FALSE, <<>>, ok, NULL, NoWild)
  \/ \E s \in {1}, uri \in {NoUri, Uri("urn:a/", "s1")}, raw \in Statuses :
       save(s, uri, "file:///presets/", "a.ttl", raw)
  \/ \E s \in {1}, raw \in Statuses : set_metadata(s, 1, raw)
  \/ \E s \in {1}, raw \in Statuses : delete(s, raw)
  \/ \E s \in {1} : drop(s)

SpecStatus == Init /\ [][NextStatus]_vars

\* Serialisation: capture, label, metadata, to_string and reload.
NextText ==
  \/ \E s \in {1, 2}, ok \in BOOLEAN :
       new_from_instance(s, NoDirs, FALSE, <<>>, ok, NULL, NoWild)
  \/ \E s \in {1, 2} :
       new_state(s, Uri("urn:a/", "s1"), BadLabel, <<>>,
                <<Stored("gain", PortValue(5, 4, 1))>>)
  \/ \E s \in {1, 2}, label \in Labels : set_label(s, label)
  \/ \E s \in {1, 2}, raw \in {LV2_STATE_SUCCESS, MaxStatus} : set_metadata(s, 1, raw)
  \/ \E s \in {1, 2}, uri \in Uris, base_uri \in {NoneStr} \cup BaseUris,
         ok \in BOOLEAN :
       to_string(s, uri, base_uri, ok)
  \/ \E s \in {1, 2},
         text \in {EmptyText, MalformedText} \cup
                  (IF backup.ok THEN {backup.text} ELSE {}) :
       new_state_from_string(s, text)

SpecText == InitText /\ [][NextText]_vars

\* Threads: snapshots are captured, then threads run save, to_string and
\* delete on them statement by statement.
NextLock ==
  \/ \E s \in Slots :
       new_from_instance(s, NoDirs, FALSE, <<>>, TRUE, NULL, NoWild)
  \/ \E t \in Threads, op \in {"save", "to_string", "delete"}, s \in Slots :
       world_inner_lock(t, op, s)
  \/ \E t \in Threads : world_ptr_as_ptr(t)
  \/ \E t \in Threads : engine_call(t)
  \/ \E t \in Threads, raw \in {LV2_STATE_SUCCESS, MaxStatus} :
       save_return(t, NoUri, "urn:a/", "s1", raw)
  \/ \E t \in Threads : to_string_return(t, PluginUri, NoneStr, TRUE)
  \/ \E t \in Threads, raw \in {LV2_STATE_SUCCESS, MaxStatus} :
       delete_return(t, raw)

SpecLock == Init /\ [][NextLock]_vars

\* ---------------------------------------------------------------- claims
Constructors ==
  {"new_from_instance", "new_state", "new_state_from_file",
   "new_state_from_string"}

Count(seq, x) == Cardinality({i \in 1..Len(seq) : seq[i] = x})

\* C1: over any clones and drops, a handle is released at most once, only
\* when no State refers to it any more, and every State still alive refers
\* to a handle that has not been released.
C1_ReleasedOnceNoDangling ==
  /\ \A h \in Handles : frees[h] <= 1
  /\ \A s \in Slots : owners[s].some => heap[owners[s].inner].st = "live"
  /\ \A h \in Handles :
       heap[h].st = "live" => \E s \in Slots : owners[s] = Some(h)

\* C2: during new_from_instance with an accessor, the produce trampoline
\* invokes the accessor once per port symbol, writes the accessor's size and
\* type and returns its pointer; on an empty slot it writes 0/0, returns
\* null and invokes nothing.
C2_ProduceTrampoline ==
  last.op = "new_from_instance" =>
    IF last.user
      THEN /\ last.outcome = "ok"
           /\ last.entered = Len(Ports)
           /\ last.invoked = [i \in 1..Len(Ports) |-> Stored(Ports[i], host[Ports[i]])]
           /\ last.written = [i \in 1..Len(Ports) |-> host[Ports[i]]]
      ELSE /\ last.invoked = <<>>
           /\ \A i \in 1..Len(last.written) : last.written[i] = NullValue

\* C3: emit_port_values, and restore with an accessor, invoke the
\* accessor's set_port_value exactly once per stored port value, with the
\* stored symbol, value, size and type.
C3_ConsumeOncePerStoredValue ==
  (last.op = "emit_port_values" \/ (last.op = "restore" /\ last.user)) =>
    /\ last.outcome = "ok"
    /\ Len(last.invoked) = Len(last.stored)
    /\ \A i \in 1..Len(last.stored) :
         Count(last.invoked, last.stored[i]) = Count(last.stored, last.stored[i])

\* C4: capture and restore without an accessor hand the engine no callback,
\* enter no trampoline, invoke no caller code and do not fail; the
\* properties are still captured and restored, only port values are left
\* out. emit_port_values cannot be called without an accessor.
C4_NullAccessorSafe ==
  /\ (last.op \in {"new_from_instance", "restore"} /\ ~last.user) =>
       /\ last.fn = "null"
       /\ last.entered = 0
       /\ last.invoked = <<>>
       /\ last.outcome = "ok"
  /\ (last.op = "new_from_instance" /\ ~last.user) =>
       /\ last.some <=> last.handle # NULL
       /\ last.some => /\ heap[last.handle].props = last.props
                       /\ heap[last.handle].values = <<>>
  /\ (last.op = "restore" /\ ~last.user /\ last.props # <<>>) =>
       inst.props = last.props
  /\ last.op = "emit_port_values" => last.user

C4_Witness ==
  /\ last.op = "restore"
  /\ ~last.user
  /\ last.stored # <<>>
  /\ last.props # <<>>

\* The reload of the caller's kept string whose source S was captured from
\* an instance with a non-empty property set.
ReloadOfCaptured ==
  /\ last.op = "new_state_from_string"
  /\ last.frombackup
  /\ heap[backup.of].st = "live"
  /\ heap[backup.of].origin = "instance"
  /\ heap[backup.of].props # <<>>

RoundTrips ==
  /\ last.some
  /\ eq(backup.of, last.handle)
  /\ ~State_plugin_uri(last.handle).panic
  /\ State_plugin_uri(last.handle) = State_plugin_uri(backup.of)

C6_Identity ==
  /\ \A h \in Handles :
       (heap[h].st = "live" /\ heap[h].origin = "instance") => State_uri(h) = <<>>
  /\ (last.op = "new_state_from_string" /\ last.frombackup /\ last.some) =>
       State_uri(last.handle) = <<backup.uri>>
  /\ \A h \in Handles : heap[h].st = "live" => ~State_plugin_uri(h).panic

\* The step part of C6: no step changes a snapshot's plugin URI.
C6_PluginUriKept ==
  \A h \in Handles :
    (heap[h].st = "live" /\ heap'[h].st = "live") =>
      heap'[h].plugin_uri = heap[h].plugin_uri

\* C6: a snapshot captured from an instance has uri() = None and keeps it
\* through set_label, set_metadata and to_string; a snapshot reloaded from a
\* to_string made with uri u has uri() = Some(u); plugin_uri() is present on
\* every snapshot and never changes.
C6_IdentityDefaulting == [](C6_Identity) /\ [][C6_PluginUriKept]_vars

C6_Witness ==
  /\ last.op = "new_state_from_string"
  /\ last.frombackup
  /\ last.some
  /\ heap[backup.of].st = "live"
  /\ heap[backup.of].origin = "instance"
  /\ heap[backup.of].label # NoLabel
  /\ heap[backup.of].meta # {}
  /\ State_uri(backup.of) = <<>>
  /\ State_uri(last.handle) = <<backup.uri>>

\* C7: save, set_metadata and delete return Ok(()) exactly on the success
\* status, and Err with the engine's status code otherwise, without a panic.
C7_StatusSurfaced ==
  last.op \in {"save", "set_metadata", "delete"} =>
    /\ last.result.ok <=> last.status = LV2_STATE_SUCCESS
    /\ ~last.result.ok => last.result.err = last.status
    /\ last.outcome = "ok"

C7_Witness ==
  /\ last.op = "delete"
  /\ last.status = MaxStatus
  /\ ~last.result.ok

\* C8: a constructor returns None exactly when the engine yields no handle,
\* and every State that exists holds a non-null handle of a populated
\* engine object.
C8_FailsClosed ==
  /\ \A s \in Slots :
       owners[s].some =>
         /\ owners[s].inner # NULL
         /\ heap[owners[s].inner].st # "unused"
  /\ last.op \in Constructors =>
       /\ last.some <=> last.handle # NULL
       /\ last.some =>
            /\ \E s \in Slots : owners[s] = Some(last.handle)
            /\ heap[last.handle].st = "live"
            /\ heap[last.handle].plugin_uri # NoUri

C8_Witness ==
  /\ last.op = "new_state_from_file"
  /\ ~last.some
  /\ last.handle = NULL

\* C10: the array handed to the engine by new_from_instance and restore is
\* the caller's feature records in order, then one null, and no null before.
C10_FeaturesNullTerminated ==
  last.op \in {"new_from_instance", "restore"} =>
    LET n == Len(last.features) IN
    /\ n = Len(last.given) + 1
    /\ last.features[n] = NULL
    /\ \A i \in 1..(n - 1) :
         last.features[i] = last.given[i] /\ last.features[i] # NULL

C10_Witness ==
  /\ last.op = "restore"
  /\ Len(last.given) >= 2
  /\ last.given[1] # last.given[2]

\* The threads inside an engine call made with the world's pointer.
InEngine == {t \in Threads : pc[t].at = "engine"}

\* C11: engine calls of save, to_string and delete on snapshots of one
\* world never overlap: at no time are two threads inside such a call (as
\* they could not be if each held the world lock for its whole call).
C11_EngineCallsNeverOverlap == Cardinality(InEngine) <= 1
====
